---- MODULE Spec2Model ----
(***************************************************************************)
(* A model of boutdata.collect (src/boutdata/collect.py): the index        *)
(* normaliser _convert_to_nice_slice, the name resolver findVar, and the   *)
(* multi-file reassembly done by collect and _collect_from_one_proc.       *)
(***************************************************************************)
EXTENDS Integers, Sequences, FiniteSets, TLC

VARIABLES
    pc,         \* position of the running call
    r,          \* _convert_to_nice_slice: the raw axis spec
    N,          \* _convert_to_nice_slice: the axis size
    sliceOut,   \* _convert_to_nice_slice: what the call returned or raised
    varname,    \* the requested variable name
    varlist,    \* the names the file holds (f.keys() / f.list())
    strict,     \* collect's strict flag
    nameOut,    \* what the name resolution returned or raised
    args,       \* collect: xind, yind, zind, tind, xguards, yguards
    hdr,        \* collect: the header scalars of file 0
    dimensions, \* collect: f.dimensions(varname)
    nfiles,     \* collect: len(file_list)
    yindexAttr, \* per file: the variable's yindex_global attribute
    q,          \* collect: what it hands to _collect_from_one_proc
    data,       \* collect: the output buffer
    writes,     \* per cell of data: the writes it has seen
    i,          \* collect: the loop index
    yindex_global,   \* collect: the FieldPerp's y index found so far
    fieldperp_yproc, \* collect: the process row it was found on
    var_attributes,  \* collect: the file whose attributes are returned
    result,     \* collect: the array returned
    err,        \* collect: the exception raised
    parallel,   \* collect: the layout is one merged file
    datafile_cache, \* collect: None, or the open handles of the cache
    tind_auto,  \* collect: the auto time truncation flag
    opened,     \* the files collect has opened a DataFile on, in order
    closed,     \* the positions in opened of the handles it has closed
    reads,      \* the reads issued: <<file, variable name>>, and for
                \* a ranged read of the loop the slices as a third item
    calls       \* the collect calls begun

sliceVars == <<r, N, sliceOut>>
nameVars == <<varname, varlist, strict, nameOut>>
inputVars == <<args, hdr, dimensions, nfiles, yindexAttr>>
loopVars == <<data, writes, i, yindex_global, fieldperp_yproc, var_attributes>>
fileVars == <<parallel, datafile_cache, tind_auto, opened, closed, reads, calls>>
collectVars == <<inputVars, q, loopVars, result, err, fileVars>>
vars == <<pc, sliceVars, nameVars, collectVars>>

\* ------------------------------------------------------------------ bounds

\* Largest axis size handed to _convert_to_nice_slice on its own.
MaxN == 4
\* Largest |step| of a three-element list or slice.
MaxStep == 2
\* Longest variable name, in characters.
MaxNameLen == 2
\* Most names a file holds.
MaxVars == 2
\* The largest process grid, nxpe by nype.
MaxNxpe == 2
MaxNype == 2
\* The most interior cells of a process, mxsub by mysub.
MaxMxsub == 2
MaxMysub == 3
\* The widest guard bands, mxg and myg.
MaxMxg == 1
MaxMyg == 1
\* The most z points of a file, mz.
MaxMz == 2
\* The largest stride asked for on x or y.
MaxStride == 3
\* The largest yindex_global a file reports.
MaxYindex == 1
\* The most files a FieldPerp is collected from.
MaxPerpFiles == 4
\* The most files found when their number is free of nxpe * nype.
MaxFiles == 3
\* The most collect calls that share a cache.
MaxCalls == 2
\* The most process rows of a run with an upper target.
MaxUpperNype == 3

\* ----------------------------------------------------------------- helpers

Min(a, b) == IF a < b THEN a ELSE b
Max(a, b) == IF a > b THEN a ELSE b

\* Python's None and an int, as an option: <<>> is None, <<v>> is v.
None == <<>>
Some(v) == <<v>>

NoCall == [err |-> "nocall"]

\* ------------------------------------------------- _convert_to_nice_slice

Raise(e) == [err |-> e, start |-> 0, stop |-> 0, step |-> 0]

\* slice.indices that forgets to clamp a bound to the end of the axis.
SliceIndicesNoClamp(start, stop, step, length) ==
    IF step # None /\ step[1] = 0
    THEN Raise("ValueError")
    ELSE LET st == IF step = None THEN 1 ELSE step[1]
             lower == IF st < 0 THEN -1 ELSE 0
             upper == IF st < 0 THEN length - 1 ELSE length
             Clamp(v, dflt) ==
                 IF v = None THEN dflt
                 ELSE IF v[1] < 0 THEN Max(v[1] + length, lower)
                 ELSE v[1]
         IN [err |-> "none",
             start |-> Clamp(start, IF st < 0 THEN upper ELSE lower),
             stop |-> Clamp(stop, IF st < 0 THEN lower ELSE upper),
             step |-> st]

\* slice(start, stop, step).indices(length), line 125: None is replaced by
\* the end of the axis the step walks from or to, a negative bound is taken
\* relative to length, and every bound is clamped to the axis.
SliceIndices(start, stop, step, length) ==
    IF step # None /\ step[1] = 0
    THEN Raise("ValueError")
    ELSE LET st == IF step = None THEN 1 ELSE step[1]
             lower == IF st < 0 THEN -1 ELSE 0
             upper == IF st < 0 THEN length - 1 ELSE length
             Clamp(v, dflt) ==
                 IF v = None THEN dflt
                 ELSE IF v[1] < 0 THEN Max(v[1] + length, lower)
                 ELSE Min(v[1], upper)
         IN [err |-> "none",
             start |-> Clamp(start, IF st < 0 THEN upper ELSE lower),
             stop |-> Clamp(stop, IF st < 0 THEN lower ELSE upper),
             step |-> st]

\* The int branch without the special case for r == -1.
ConvertIntNoLast(v, n) ==
    IF v >= n \/ v < -n THEN Raise("IndexError")
    ELSE SliceIndices(Some(v), Some(v + 1), None, n)

\* The isinstance(r, int) branch, lines 94-102.
ConvertInt(v, n) ==
    IF v >= n \/ v < -n THEN Raise("IndexError")
    ELSE IF v = -1 THEN SliceIndices(Some(v), None, None, n)
    ELSE SliceIndices(Some(v), Some(v + 1), None, n)

\* The two-element branch with the end taken as exclusive.
ConvertPairExclusive(a, b, n) ==
    LET r20 == IF a < 0 THEN a + n ELSE a
        r21 == IF b < 0 THEN b + n ELSE b
    IN IF r20 > r21 THEN Raise("ValueError")
       ELSE SliceIndices(Some(r20), Some(r21), None, n)

\* The len(r) == 2 branch, lines 107-117.
ConvertPair(a, b, n) ==
    LET r20 == IF a < 0 THEN a + n ELSE a
        r21 == IF b < 0 THEN b + n ELSE b
    IN IF r20 > r21 THEN Raise("ValueError")
       ELSE SliceIndices(Some(r20), Some(r21 + 1), None, n)

\* _convert_to_nice_slice(r, N).  A raw spec is [kind, v, s]: kind "none" (r
\* is None), "int" (v = <<r>>), "list" (v the list) or "slice" (s = <<start,
\* stop, step>>, each an option).
ConvertToNiceSlice(raw, n) ==
    IF n = 0 THEN Raise("ValueError")
    ELSE IF raw.kind = "none" THEN SliceIndices(None, Some(n), None, n)
    ELSE IF raw.kind = "slice" THEN SliceIndices(raw.s[1], raw.s[2], raw.s[3], n)
    ELSE IF raw.kind = "int" THEN ConvertInt(raw.v[1], n)
    ELSE IF Len(raw.v) = 0 THEN SliceIndices(None, Some(n), None, n)
    ELSE IF Len(raw.v) = 1 THEN ConvertInt(raw.v[1], n)
    ELSE IF Len(raw.v) = 2 THEN ConvertPair(raw.v[1], raw.v[2], n)
    ELSE IF Len(raw.v) = 3
         THEN SliceIndices(Some(raw.v[1]), Some(raw.v[2]), Some(raw.v[3]), n)
    ELSE Raise("ValueError")

\* ---------------------------------------------------------------- findVar

\* str.lower() on one character of the model's alphabet.
LowerChar(c) == IF c = "A" THEN "a" ELSE IF c = "B" THEN "b" ELSE c

\* name.lower()
Lower(name) == [k \in 1..Len(name) |-> LowerChar(name[k])]

\* name[:n]
Prefix(name, n) == SubSeq(name, 1, Min(n, Len(name)))

NameRaise == [err |-> "ValueError", name |-> <<>>]
NameReturn(name) == [err |-> "none", name |-> name]

\* findVar that takes the first of several case-insensitive matches.
FindVarFirstMatch(vn, vl) ==
    LET v1 == {name \in vl : Lower(name) = Lower(vn)}
        v2 == {name \in vl : Lower(Prefix(name, Len(vn))) = Lower(vn)}
    IN IF Cardinality(v1) >= 1 THEN NameReturn(CHOOSE name \in v1 : TRUE)
       ELSE IF Cardinality(v2) = 1 THEN NameReturn(CHOOSE name \in v2 : TRUE)
       ELSE NameRaise

\* findVar(varname, varlist), lines 37-58.
FindVar(vn, vl) ==
    LET v1 == {name \in vl : Lower(name) = Lower(vn)}
        v2 == {name \in vl : Lower(Prefix(name, Len(vn))) = Lower(vn)}
    IN IF Cardinality(v1) = 1 THEN NameReturn(CHOOSE name \in v1 : TRUE)
       ELSE IF Cardinality(v1) > 1 THEN NameRaise
       ELSE IF Cardinality(v2) = 1 THEN NameReturn(CHOOSE name \in v2 : TRUE)
       ELSE NameRaise

\* The resolution without the test for a verbatim name.
ResolveNameAlwaysFind(vn, vl, st) ==
    IF st /\ vn \notin vl THEN NameRaise ELSE FindVar(vn, vl)

\* collect's resolution of varname against file 0, lines 287-291.
ResolveName(vn, vl, st) ==
    IF vn \notin vl
    THEN IF st THEN NameRaise ELSE FindVar(vn, vl)
    ELSE NameReturn(vn)

\* ------------------------------------------------ _collect_from_one_proc

\* dim in dimensions
Has(dim, dims) == \E k \in 1..Len(dims) : dims[k] = dim

\* Swapped process coordinates.
ProcCoordsSwapped(ip, nxpe) == [x |-> ip \div nxpe, y |-> ip % nxpe]

\* pe_yind = i // nxpe, pe_xind = i % nxpe, lines 630-631.
ProcCoords(ip, nxpe) == [x |-> ip % nxpe, y |-> ip \div nxpe]

\* The local y range of process row pe, lines 635-683.  kw holds the keyword
\* arguments of _collect_from_one_proc; kw.ypt is yproc_upper_target.
YRange(pe, kw) ==
    IF kw.yguards
    THEN LET ystart0 == kw.yind.start - pe * kw.mysub
             ystop0 == kw.yind.stop - pe * kw.mysub
             inLower == IF pe = 0 THEN ~(ystop0 <= 0)
                        ELSE ~(ystop0 < kw.myg - 1)
             ystart1 == IF pe = 0 THEN (IF ystart0 < 0 THEN 0 ELSE ystart0)
                        ELSE (IF ystart0 < kw.myg THEN kw.myg ELSE ystart0)
             ystart2 == IF kw.ypt # None /\ pe - 1 = kw.ypt[1]
                        THEN ystart1 - kw.myg ELSE ystart1
             lim == IF pe = kw.nype - 1 THEN kw.mysub + 2 * kw.myg
                    ELSE kw.mysub + kw.myg
             inUpper == ~(ystart2 >= lim)
             ystop1 == IF ystop0 > lim THEN lim ELSE ystop0
             ystop2 == IF kw.ypt # None /\ pe = kw.ypt[1]
                       THEN ystop1 + kw.myg ELSE ystop1
         IN [inrange |-> inLower /\ inUpper, start |-> ystart2, stop |-> ystop2]
    ELSE LET ystart0 == kw.yind.start - pe * kw.mysub + kw.myg
             ystop0 == kw.yind.stop - pe * kw.mysub + kw.myg
         IN [inrange |-> ~(ystart0 >= kw.mysub + kw.myg \/ ystop0 <= kw.myg),
             start |-> IF ystart0 < kw.myg THEN kw.myg ELSE ystart0,
             stop |-> IF ystop0 > kw.mysub + kw.myg THEN kw.myg + kw.mysub
                      ELSE ystop0]

\* The local x range of process column pe, lines 685-727.
XRange(pe, kw) ==
    IF kw.xguards
    THEN LET xstart0 == kw.xind.start - pe * kw.mxsub
             xstop0 == kw.xind.stop - pe * kw.mxsub
             inLower == IF pe = 0 THEN ~(xstop0 <= 0) ELSE ~(xstop0 <= kw.mxg)
             xstart1 == IF pe = 0 THEN (IF xstart0 < 0 THEN 0 ELSE xstart0)
                        ELSE (IF xstart0 < kw.mxg THEN kw.mxg ELSE xstart0)
             lim == IF pe = kw.nxpe - 1 THEN kw.mxsub + 2 * kw.mxg
                    ELSE kw.mxsub + kw.mxg
             inUpper == ~(xstart1 >= lim)
             xstop1 == IF xstop0 > lim THEN lim ELSE xstop0
         IN [inrange |-> inLower /\ inUpper, start |-> xstart1, stop |-> xstop1]
    ELSE LET xstart0 == kw.xind.start - pe * kw.mxsub + kw.mxg
             xstop0 == kw.xind.stop - pe * kw.mxsub + kw.mxg
         IN [inrange |-> ~(xstart0 >= kw.mxsub + kw.mxg \/ xstop0 <= kw.mxg),
             start |-> IF xstart0 < kw.mxg THEN kw.mxg ELSE xstart0,
             stop |-> IF xstop0 > kw.mxsub + kw.mxg THEN kw.mxg + kw.mxsub
                      ELSE xstop0]

\* The destination x slice, lines 743-748.
XGlobal(pe, xr, kw) ==
    IF kw.xguards
    THEN [start |-> xr.start + pe * kw.mxsub - kw.xind.start,
          stop |-> xr.stop + pe * kw.mxsub - kw.xind.start]
    ELSE [start |-> xr.start + pe * kw.mxsub - kw.mxg - kw.xind.start,
          stop |-> xr.stop + pe * kw.mxsub - kw.mxg - kw.xind.start]

\* The destination y slice, lines 749-757.
YGlobal(pe, yr, kw) ==
    IF kw.yguards
    THEN LET shift == IF kw.ypt # None /\ pe > kw.ypt[1] THEN 2 * kw.myg ELSE 0
         IN [start |-> yr.start + pe * kw.mysub - kw.yind.start + shift,
             stop |-> yr.stop + pe * kw.mysub - kw.yind.start + shift]
    ELSE [start |-> yr.start + pe * kw.mysub - kw.myg - kw.yind.start,
          stop |-> yr.stop + pe * kw.mysub - kw.myg - kw.yind.start]

\* What slice(start, stop) selects on an axis of length n (lines 736-738,
\* 767-771, as the array library resolves it): the first index and the
\* number of indices.
Span(start, stop, n) ==
    LET s == SliceIndices(Some(start), Some(stop), None, n)
    IN [lo |-> s.start, n |-> Max(s.stop - s.start, 0)]

\* An axis the variable does not have: one position on either side.
NoAxis == [lo |-> 0, n |-> 1]

\* The value process ip's file holds at local (lx, ly); every (t, z) column
\* of a file is read and written as a whole, so a cell stands for one.
LocalData(ip, lx, ly) == <<ip, lx, ly>>

\* np.zeros
Zero == <<>>

\* The ranges of one call of _collect_from_one_proc for process ip, lines
\* 629-757.
Shard(ip, kw) ==
    LET pe == ProcCoords(ip, kw.nxpe)
        yr == YRange(pe.y, kw)
        xr == XRange(pe.x, kw)
    IN [inrange |-> yr.inrange /\ xr.inrange,
        pe |-> pe, x |-> xr, y |-> yr,
        xg |-> XGlobal(pe.x, xr, kw), yg |-> YGlobal(pe.y, yr, kw)]

\* result[global_slices] = datafile.read(varname, ranges=local_slices), line
\* 810: the ranged read, then the assignment, which broadcasts a source
\* axis of length one and otherwise needs equal lengths.  buf and cnt are
\* the output buffer and the number of writes each of its cells has seen.
CopyShard(ip, sh, kw, buf, cnt) ==
    LET hasX == Has("x", kw.dimensions)
        hasY == Has("y", kw.dimensions)
        srcX == IF hasX THEN Span(sh.x.start, sh.x.stop, kw.mxsub + 2 * kw.mxg)
                ELSE NoAxis
        srcY == IF hasY THEN Span(sh.y.start, sh.y.stop, kw.mysub + 2 * kw.myg)
                ELSE NoAxis
        dstX == IF hasX THEN Span(sh.xg.start, sh.xg.stop, kw.xsize) ELSE NoAxis
        dstY == IF hasY THEN Span(sh.yg.start, sh.yg.stop, kw.ysize) ELSE NoAxis
        fits == /\ (srcX.n = dstX.n \/ srcX.n = 1)
                /\ (srcY.n = dstY.n \/ srcY.n = 1)
        Hit(c) == /\ c[1] >= dstX.lo /\ c[1] < dstX.lo + dstX.n
                  /\ c[2] >= dstY.lo /\ c[2] < dstY.lo + dstY.n
        From(c) == LocalData(ip,
                       srcX.lo + (IF srcX.n = 1 THEN 0 ELSE c[1] - dstX.lo),
                       srcY.lo + (IF srcY.n = 1 THEN 0 ELSE c[2] - dstY.lo))
        local == [x |-> IF hasX THEN <<sh.x.start, sh.x.stop>> ELSE <<>>,
                  y |-> IF hasY THEN <<sh.y.start, sh.y.stop>> ELSE <<>>,
                  nx |-> srcX.n, ny |-> srcY.n,
                  gx |-> IF hasX THEN <<sh.xg.start, sh.xg.stop>> ELSE <<>>,
                  gy |-> IF hasY THEN <<sh.yg.start, sh.yg.stop>> ELSE <<>>]
    IN IF ~fits
       THEN [err |-> "ValueError", data |-> buf, writes |-> cnt,
             read |-> local]
       ELSE [err |-> "none", read |-> local,
             data |-> [c \in DOMAIN buf |-> IF Hit(c) THEN From(c) ELSE buf[c]],
             writes |-> [c \in DOMAIN cnt |->
                            IF Hit(c) THEN cnt[c] + 1 ELSE cnt[c]]]

\* _collect_from_one_proc that reads a FieldPerp from every file in range,
\* whatever its yindex_global.
CollectFromOneProcNoSkip(ip, kw, buf, cnt, attr) ==
    LET sh == Shard(ip, kw)
        cp == CopyShard(ip, sh, kw, buf, cnt)
    IN IF ~sh.inrange
       THEN [err |-> "none", data |-> buf, writes |-> cnt,
             yindex |-> None, attrs |-> None, read |-> None]
       ELSE [err |-> cp.err, data |-> cp.data, writes |-> cp.writes,
             read |-> Some(cp.read),
             yindex |-> IF kw.is_fieldperp /\ cp.err = "none" /\ attr >= 0
                        THEN Some(attr) ELSE None,
             attrs |-> IF kw.is_fieldperp /\ cp.err = "none" /\ attr >= 0
                       THEN Some(ip) ELSE None]

\* _collect_from_one_proc for process ip and a variable with a spatial
\* dimension, lines 629-815: [err, data, writes, yindex, attrs]; yindex and attrs are
\* None unless a FieldPerp was read.  attr is the yindex_global attribute of
\* the variable in process ip's file.
CollectFromOneProc(ip, kw, buf, cnt, attr) ==
    LET skip == [err |-> "none", data |-> buf, writes |-> cnt,
                 yindex |-> None, attrs |-> None, read |-> None]
        Read(cp) ==
            [err |-> cp.err, data |-> cp.data, writes |-> cp.writes,
             read |-> Some(cp.read),
             yindex |-> IF kw.is_fieldperp /\ cp.err = "none"
                        THEN Some(attr) ELSE None,
             attrs |-> IF kw.is_fieldperp /\ cp.err = "none"
                       THEN Some(ip) ELSE None]
        Proc(sh) ==
            IF ~sh.inrange THEN skip
            ELSE IF kw.is_fieldperp /\ attr < 0 THEN skip
            ELSE Read(CopyShard(ip, sh, kw, buf, cnt))
    IN Proc(Shard(ip, kw))

\* ---------------------------------------------------------------- collect

\* BOUT_VERSION is held in tenths: the test version < 3.5 of line 346.
VersionThreshold == 35

\* nz, lines 340-350: one point fewer before version 3.5.
GlobalNz(h) ==
    LET version == IF h.BOUT_VERSION = None THEN 0 ELSE h.BOUT_VERSION[1]
    IN IF version < VersionThreshold THEN h.MZ - 1 ELSE h.MZ

\* nxpe and nype with their fallbacks, lines 353-362.
Nxpe(h) == IF h.NXPE = None THEN 1 ELSE h.NXPE[1]
Nype(h, nf) == IF h.NYPE = None THEN nf ELSE h.NYPE[1]

\* nx without the guard cells it keeps.
GlobalNxNoGuards(h, a) == Nxpe(h) * h.MXSUB

\* nx, lines 372-375.
GlobalNx(h, a) ==
    IF a.xguards THEN Nxpe(h) * h.MXSUB + 2 * h.MXG ELSE Nxpe(h) * h.MXSUB

\* The test of line 379: upper target guards are asked for and the
\* simulation has a second target.
HasUpperTarget(h, a) ==
    a.yguards = "include_upper" /\ h.jyseps2_1 # h.jyseps1_2

\* ny that counts the upper target's guard cells whenever they are asked for.
GlobalNyAlwaysUpper(h, a, nf) ==
    IF a.yguards # "False"
    THEN h.MYSUB * Nype(h, nf) + 2 * h.MYG
             + (IF a.yguards = "include_upper" THEN 2 * h.MYG ELSE 0)
    ELSE h.MYSUB * Nype(h, nf)

\* ny, lines 377-393.
GlobalNy(h, a, nf) ==
    IF a.yguards # "False"
    THEN h.MYSUB * Nype(h, nf) + 2 * h.MYG
             + (IF HasUpperTarget(h, a) THEN 2 * h.MYG ELSE 0)
    ELSE h.MYSUB * Nype(h, nf)

\* yproc_upper_target, lines 383-393.
YprocUpperTarget(h, a) ==
    IF a.yguards # "False" /\ HasUpperTarget(h, a)
    THEN Some(h.ny_inner \div h.MYSUB - 1)
    ELSE None

\* int(np.ceil(float(a) / b)), lines 402-403, for b # 0.
CeilDiv(a, b) ==
    IF b > 0 THEN 0 - ((0 - a) \div b) ELSE 0 - (a \div (0 - b))

IsFieldPerp(d) == d = <<"t", "x", "z">> \/ d = <<"x", "z">>

\* Lines 316-403 and 436-442: the header scalars, the global sizes, the four
\* normalised ranges and the sizes of the buffer; [err, q], q being the
\* keyword arguments collect hands to _collect_from_one_proc.
Geometry(a, h, d, nf) ==
    LET nx == GlobalNx(h, a)
        ny == GlobalNy(h, a, nf)
        nz == GlobalNz(h)
        xs == ConvertToNiceSlice(a.xind, nx)
        ys == ConvertToNiceSlice(a.yind, ny)
        zs == ConvertToNiceSlice(a.zind, nz)
        ts == ConvertToNiceSlice(a.tind, h.nt)
        fail(e) == [err |-> e, q |-> NoCall]
    IN IF HasUpperTarget(h, a) /\ a.yguards # "False"
          /\ h.ny_inner % h.MYSUB # 0
       THEN fail("ValueError")
       ELSE IF xs.err # "none" THEN fail(xs.err)
       ELSE IF ys.err # "none" THEN fail(ys.err)
       ELSE IF zs.err # "none" THEN fail(zs.err)
       ELSE IF ts.err # "none" THEN fail(ts.err)
       ELSE [err |-> "none",
             q |-> [dimensions |-> d, is_fieldperp |-> IsFieldPerp(d),
                    tind |-> ts, xind |-> xs, yind |-> ys, zind |-> zs,
                    nxpe |-> Nxpe(h), nype |-> Nype(h, nf),
                    mxsub |-> h.MXSUB, mysub |-> h.MYSUB,
                    mxg |-> h.MXG, myg |-> h.MYG,
                    xguards |-> a.xguards, yguards |-> a.yguards # "False",
                    ypt |-> YprocUpperTarget(h, a),
                    nx |-> nx, ny |-> ny, nz |-> nz, nt |-> h.nt,
                    npe |-> Nxpe(h) * Nype(h, nf),
                    xsize |-> xs.stop - xs.start,
                    ysize |-> ys.stop - ys.start,
                    zsize |-> CeilDiv(zs.stop - zs.start, zs.step),
                    tsize |-> CeilDiv(ts.stop - ts.start, ts.step)]]

\* sizes[d], line 428.
SizeOf(dim, p) ==
    IF dim = "x" THEN p.xsize ELSE IF dim = "y" THEN p.ysize
    ELSE IF dim = "z" THEN p.zsize ELSE p.tsize

\* The cells of a buffer of xsize by ysize columns; an axis the variable
\* does not have has one position.
Cells(d, xsize, ysize) ==
    (0..((IF Has("x", d) THEN xsize ELSE 1) - 1))
        \X (0..((IF Has("y", d) THEN ysize ELSE 1) - 1))

\* The indices data[::step] keeps of an axis of length n, lines 494-504.
Kept(n, step) ==
    LET cnt == CeilDiv(n, IF step > 0 THEN step ELSE 0 - step)
    IN [k \in 0..(cnt - 1) |-> IF step > 0 THEN k * step ELSE n - 1 + k * step]

\* The stride applied to the wrong axis.
DecimateSwapped(buf, p) ==
    LET kx == IF Has("x", p.dimensions) THEN Kept(p.xsize, p.yind.step)
              ELSE Kept(1, 1)
        ky == IF Has("y", p.dimensions) THEN Kept(p.ysize, p.xind.step)
              ELSE Kept(1, 1)
    IN [c \in (DOMAIN kx) \X (DOMAIN ky) |-> buf[<<kx[c[1]], ky[c[2]]>>]]

\* data[:: xind.step, :: yind.step], lines 491-504.
Decimate(buf, p) ==
    LET kx == IF Has("x", p.dimensions) THEN Kept(p.xsize, p.xind.step)
              ELSE Kept(1, 1)
        ky == IF Has("y", p.dimensions) THEN Kept(p.ysize, p.yind.step)
              ELSE Kept(1, 1)
    IN [c \in (DOMAIN kx) \X (DOMAIN ky) |-> buf[<<kx[c[1]], ky[c[2]]>>]]

\* The stride branch with a seventh tuple, (x, t).
StrideDimsWithXT ==
    {<<"t", "x", "y", "z">>, <<"x", "y", "z">>, <<"t", "x", "y">>,
     <<"t", "x", "z">>, <<"x", "y">>, <<"x", "z">>, <<"x", "t">>}

\* The dimension tuples the stride branch of lines 493-504 knows.
StrideDims ==
    {<<"t", "x", "y", "z">>, <<"x", "y", "z">>, <<"t", "x", "y">>,
     <<"t", "x", "z">>, <<"x", "y">>, <<"x", "z">>}

\* The shape of the array returned: per dimension, the size of the buffer,
\* or of what the stride keeps of it.
ShapeOf(cells, p) ==
    LET nxOut == Cardinality({c[1] : c \in DOMAIN cells})
        nyOut == Cardinality({c[2] : c \in DOMAIN cells})
    IN [k \in 1..Len(p.dimensions) |->
           IF p.dimensions[k] = "x" THEN nxOut
           ELSE IF p.dimensions[k] = "y" THEN nyOut
           ELSE SizeOf(p.dimensions[k], p)]

\* ------------------------------------------------------------ file handles

\* The name of the time array.
TArrayName == <<"t_array">>

\* getDataFile(ip), lines 181-189, on nf files of which op have been
\* opened: the handle of the cache, or a DataFile opened on file_list[ip].
\* id is the position of the new handle in opened, 0 for one of the cache.
GetDataFile(ip, cache, nf, op) ==
    IF ip >= nf THEN [err |-> "IndexError", opened |-> op, id |-> 0]
    ELSE IF cache # None THEN [err |-> "none", opened |-> op, id |-> 0]
    ELSE [err |-> "none", opened |-> Append(op, ip), id |-> Len(op) + 1]

\* f.close() on every handle, the cache's own included.
CloseFileAlways(id, file, cache, cl) ==
    IF cache = None THEN [closed |-> cl \cup {id}, cache |-> cache]
    ELSE [closed |-> cl, cache |-> Some(cache[1] \ {file})]

\* "if datafile_cache is None: f.close()", lines 302-304, 418-420, 423-425
\* and 487-489, for the handle id on file: the handles closed and the cache.
CloseFile(id, file, cache, cl) ==
    IF cache = None THEN [closed |-> cl \cup {id}, cache |-> cache]
    ELSE [closed |-> cl, cache |-> cache]

\* t_array read from every file whether or not tind_auto is set.
AutoReadsAlways(auto, nf, rd) ==
    rd \cup {<<k, TArrayName>> : k \in 0..(nf - 1)}

\* The loop of lines 332-335 under tind_auto: t_array is read from every
\* file through a handle that is not kept.
AutoOpened(auto, cache, nf, op) ==
    IF auto /\ cache = None THEN op \o [k \in 1..nf |-> k - 1] ELSE op
AutoReads(auto, nf, rd) ==
    IF auto THEN rd \cup {<<k, TArrayName>> : k \in 0..(nf - 1)} ELSE rd

\* The handles collect has opened and not closed.
OpenHandles == {k \in 1..Len(opened) : k \notin closed}

\* ------------------------------------------------------------ input sets

IdxVals == (0 - (MaxN + 2))..(MaxN + 2)
StepVals == (0 - MaxStep)..MaxStep
OptIdx == {None} \cup {Some(v) : v \in IdxVals}
OptStep == {None} \cup {Some(v) : v \in StepVals}

RawInt(kind, v) == [kind |-> kind, v |-> v, s |-> <<>>]
RawNone == RawInt("none", <<>>)

RawSpecs ==
    {RawNone}
    \cup {RawInt("int", <<v>>) : v \in IdxVals}
    \cup {RawInt("list", <<>>)}
    \cup {RawInt("list", <<v>>) : v \in IdxVals}
    \cup {RawInt("list", <<a, b>>) : a \in IdxVals, b \in IdxVals}
    \cup {RawInt("list", <<a, b, st>>) :
             a \in IdxVals, b \in IdxVals, st \in StepVals}
    \cup {RawInt("list", <<a, a, a, a>>) : a \in IdxVals}
    \cup {[kind |-> "slice", v |-> <<>>, s |-> <<a, b, st>>] :
             a \in OptIdx, b \in OptIdx, st \in OptStep}

Chars == {"a", "A", "b"}
NamesOfLen(n) == [1..n -> Chars]
Names == UNION {NamesOfLen(n) : n \in 1..MaxNameLen}
Requested == Names \cup {<<>>}
\* Every set of at most MaxVars names.
VarLists == {{}} \cup {{f[k] : k \in 1..MaxVars} : f \in [1..MaxVars -> Names]}

\* ---------------------------------------------------------------- actions

\* A call of _convert_to_nice_slice(r, N).
ConvertCall ==
    /\ pc = "convert"
    /\ sliceOut' = ConvertToNiceSlice(r, N)
    /\ pc' = "converted"
    /\ UNCHANGED <<r, N, nameVars, collectVars>>

\* A call of findVar(varname, varlist).
FindVarCall ==
    /\ pc = "findVar"
    /\ nameOut' = FindVar(varname, varlist)
    /\ pc' = "found"
    /\ UNCHANGED <<sliceVars, varname, varlist, strict, collectVars>>

\* collect's name resolution step.
ResolveCall ==
    /\ pc = "resolve"
    /\ nameOut' = ResolveName(varname, varlist, strict)
    /\ pc' = "resolved"
    /\ UNCHANGED <<sliceVars, varname, varlist, strict, collectVars>>

\* collect raises e.
Raises(e) == pc' = "raised" /\ err' = e /\ UNCHANGED result

\* collect, lines 174-196 and 282-285: the files are those of the cache or
\* the ones findFiles lists, and file 0 is taken.
CollectOpen ==
    /\ pc = "collect"
    /\ pc' = "resolve"
    /\ opened' = GetDataFile(0, datafile_cache, nfiles, opened).opened
    /\ UNCHANGED <<sliceVars, nameVars, inputVars, q, loopVars, result, err,
                   parallel, datafile_cache, tind_auto, closed, reads, calls>>

\* The handle f of file 0: the first one opened, or the cache's.
File0Id == IF datafile_cache = None THEN 1 ELSE 0

\* collect, lines 293-442, from the resolved name to the allocated buffer:
\* a scalar and a variable without a spatial dimension are read from file 0
\* and returned at once.
CollectSetup ==
    /\ pc = "resolved"
    /\ nameOut.err = "none"
    /\ ~parallel
    /\ LET ndims == Len(dimensions)
           spatial == \E dim \in {"x", "y", "z"} : Has(dim, dimensions)
           File0(geo) ==
               [shape |-> IF Has("t", dimensions) /\ geo.err = "none"
                          THEN <<geo.q.tsize>> ELSE <<>>,
                cells |-> [c \in {<<0, 0>>} |-> LocalData(0, 0, 0)]]
           ReadFile0(rd) == rd \cup {<<0, nameOut.name>>}
           Setup(geo, shut, rd) ==
               IF ndims = 0
               THEN /\ pc' = "returned" /\ result' = File0(geo)
                    /\ reads' = ReadFile0(reads)
                    /\ closed' = shut.closed
                    /\ datafile_cache' = shut.cache
                    /\ UNCHANGED <<q, loopVars, err, opened>>
               ELSE IF ndims > 4
               THEN /\ Raises("ValueError")
                    /\ UNCHANGED <<q, loopVars, opened, closed, reads,
                                   datafile_cache>>
               ELSE /\ opened' = AutoOpened(tind_auto, datafile_cache, nfiles,
                                            opened)
                    /\ IF geo.err # "none"
                       THEN /\ Raises(geo.err)
                            /\ reads' = rd
                            /\ UNCHANGED <<q, loopVars, closed, datafile_cache>>
                       ELSE IF ~spatial
                       THEN /\ q' = geo.q
                            /\ UNCHANGED loopVars
                            /\ IF Has("t", dimensions) /\ dimensions[1] # "t"
                               THEN /\ Raises("ValueError")
                                    /\ reads' = rd
                                    /\ UNCHANGED <<closed, datafile_cache>>
                               ELSE /\ pc' = "returned"
                                    /\ result' = File0(geo)
                                    /\ reads' = ReadFile0(rd)
                                    /\ closed' = shut.closed
                                    /\ datafile_cache' = shut.cache
                                    /\ UNCHANGED err
                       ELSE /\ reads' = rd
                            /\ closed' = shut.closed
                            /\ datafile_cache' = shut.cache
                            /\ IF \E k \in 1..ndims :
                                      SizeOf(dimensions[k], geo.q) < 0
                               THEN /\ Raises("ValueError")
                                    /\ UNCHANGED <<q, loopVars>>
                               ELSE /\ pc' = "loop"
                                    /\ q' = geo.q
                                    /\ data' = [c \in Cells(dimensions,
                                                            geo.q.xsize,
                                                            geo.q.ysize)
                                                   |-> Zero]
                                    /\ writes' = [c \in Cells(dimensions,
                                                              geo.q.xsize,
                                                              geo.q.ysize)
                                                     |-> 0]
                                    /\ i' = 0
                                    /\ yindex_global' = None
                                    /\ fieldperp_yproc' = None
                                    /\ var_attributes' = Some(0)
                                    /\ UNCHANGED <<result, err>>
       IN Setup(Geometry(args, hdr, dimensions, nfiles),
                CloseFile(File0Id, 0, datafile_cache, closed),
                AutoReads(tind_auto, nfiles, reads))
    /\ UNCHANGED <<sliceVars, nameVars, inputVars, parallel, tind_auto, calls>>

\* One pass of the loop of lines 444-489: the file of process i is taken,
\* _collect_from_one_proc copies its part, a FieldPerp's y index and
\* process row are checked against what the files before it reported, and
\* the file is closed.
CollectLoop ==
    /\ pc = "loop"
    /\ i < q.npe
    /\ LET pe_yind == i \div q.nxpe
           Check(f, out, shut) ==
               IF f.err # "none"
               THEN /\ Raises(f.err)
                    /\ UNCHANGED <<loopVars, opened, closed, reads,
                                   datafile_cache>>
               ELSE
                  /\ opened' = f.opened
                  /\ data' = out.data
                  /\ writes' = out.writes
                  /\ reads' = IF out.read = None THEN reads
                              ELSE reads \cup {<<i, nameOut.name,
                                                 out.read[1]>>}
                  /\ IF out.err # "none"
                     THEN /\ Raises(out.err)
                          /\ UNCHANGED <<i, yindex_global, fieldperp_yproc,
                                         var_attributes, closed,
                                         datafile_cache>>
                     ELSE IF q.is_fieldperp /\ out.yindex # None
                     THEN IF /\ yindex_global # None
                             /\ yindex_global # out.yindex
                          THEN /\ Raises("ValueError")
                               /\ UNCHANGED <<i, yindex_global,
                                              fieldperp_yproc, var_attributes,
                                              closed, datafile_cache>>
                          ELSE IF /\ fieldperp_yproc # None
                                  /\ fieldperp_yproc # Some(pe_yind)
                          THEN /\ Raises("ValueError")
                               /\ yindex_global' = out.yindex
                               /\ UNCHANGED <<i, fieldperp_yproc,
                                              var_attributes, closed,
                                              datafile_cache>>
                          ELSE /\ yindex_global' = out.yindex
                               /\ fieldperp_yproc' = Some(pe_yind)
                               /\ var_attributes' = out.attrs
                               /\ i' = i + 1
                               /\ closed' = shut.closed
                               /\ datafile_cache' = shut.cache
                               /\ UNCHANGED <<pc, result, err>>
                     ELSE /\ i' = i + 1
                          /\ closed' = shut.closed
                          /\ datafile_cache' = shut.cache
                          /\ UNCHANGED <<pc, result, err, yindex_global,
                                         fieldperp_yproc, var_attributes>>
       IN Check(GetDataFile(i, datafile_cache, nfiles, opened),
                CollectFromOneProc(i, q, data, writes,
                                   IF i < nfiles THEN yindexAttr[i + 1] ELSE 0),
                CloseFile(Len(opened) + 1, i, datafile_cache, closed))
    /\ UNCHANGED <<sliceVars, nameVars, inputVars, q, parallel, tind_auto,
                   calls>>

\* After the loop, lines 491-520: the stride is applied and the array
\* returned.
CollectFinish ==
    /\ pc = "loop"
    /\ i = q.npe
    /\ IF dimensions \in StrideDims
       THEN /\ pc' = "returned"
            /\ result' = [shape |-> ShapeOf(Decimate(data, q), q),
                          cells |-> Decimate(data, q)]
            /\ UNCHANGED err
       ELSE Raises("ValueError")
    /\ UNCHANGED <<sliceVars, nameVars, inputVars, q, loopVars, fileVars>>

\* The sizes the merged file of a run holds: x with its guard cells, y
\* without (f["nx"], f["ny"]).
FileNx(h) == Nxpe(h) * h.MXSUB + 2 * h.MXG
FileNy(h) == Nype(h, 1) * h.MYSUB

\* The dimension tuples the single-file branch slices, lines 251-275.
SingleDims ==
    {<<>>, <<"t">>, <<"x", "y">>, <<"x", "z">>, <<"t", "x", "y">>,
     <<"t", "x", "z">>, <<"x", "y", "z">>, <<"t", "x", "y", "z">>}

\* The length of range(s.start, s.stop, s.step) for a positive step.
RangeLen(s) == Max(0, CeilDiv(s.stop - s.start, s.step))

\* The single-file branch, lines 199-280: [err, shape, cells].  The ranges
\* are normalised against the sizes of the file's header and moved past
\* the guard cells that are not kept; a variable of any other dimension
\* tuple is read whole.
SingleFile(a, h, d) ==
    LET nx == IF a.xguards THEN FileNx(h) ELSE FileNx(h) - 2 * h.MXG
        ny == IF a.yguards # "False"
              THEN FileNy(h) + 2 * h.MYG
                       + (IF HasUpperTarget(h, a) THEN 2 * h.MYG ELSE 0)
              ELSE FileNy(h)
        Read(xs, ys, zs, ts) ==
            IF xs.err # "none" THEN [err |-> xs.err]
            ELSE IF ys.err # "none" THEN [err |-> ys.err]
            ELSE IF zs.err # "none" THEN [err |-> zs.err]
            ELSE IF ts.err # "none" THEN [err |-> ts.err]
            ELSE IF d \in SingleDims
            THEN [err |-> "none",
                  shape |-> [k \in 1..Len(d) |->
                                IF d[k] = "x" THEN RangeLen(xs)
                                ELSE IF d[k] = "y" THEN RangeLen(ys)
                                ELSE IF d[k] = "z" THEN RangeLen(zs)
                                ELSE RangeLen(ts)],
                  cells |-> [c \in (0..((IF Has("x", d) THEN RangeLen(xs)
                                         ELSE 1) - 1))
                                   \X (0..((IF Has("y", d) THEN RangeLen(ys)
                                            ELSE 1) - 1)) |->
                                LocalData(0,
                                    xs.start + c[1] * xs.step
                                        + (IF a.xguards THEN 0 ELSE h.MXG),
                                    ys.start + c[2] * ys.step
                                        + (IF a.yguards # "False" THEN 0
                                           ELSE h.MYG))]]
            ELSE [err |-> "none",
                  shape |-> [k \in 1..Len(d) |->
                                IF d[k] = "x" THEN FileNx(h)
                                ELSE IF d[k] = "y" THEN FileNy(h) + 2 * h.MYG
                                ELSE IF d[k] = "z" THEN h.MZ
                                ELSE IF d[k] = "t" THEN h.nt ELSE 1],
                  cells |-> [c \in {<<0, 0>>} |-> LocalData(0, 0, 0)]]
    IN Read(ConvertToNiceSlice(a.xind, nx), ConvertToNiceSlice(a.yind, ny),
            ConvertToNiceSlice(a.zind, h.MZ), ConvertToNiceSlice(a.tind, h.nt))

\* collect on a single merged file, lines 191-280: the variable is read
\* from the one file and returned.
CollectSingle ==
    /\ pc = "resolved"
    /\ nameOut.err = "none"
    /\ parallel
    /\ LET Single(out) ==
               IF out.err # "none"
               THEN Raises(out.err) /\ UNCHANGED reads
               ELSE /\ pc' = "returned"
                    /\ result' = [shape |-> out.shape, cells |-> out.cells]
                    /\ reads' = reads \cup {<<0, nameOut.name>>}
                    /\ UNCHANGED err
       IN Single(SingleFile(args, hdr, dimensions))
    /\ UNCHANGED <<sliceVars, nameVars, inputVars, q, loopVars, parallel,
                   datafile_cache, tind_auto, opened, closed, calls>>

\* No collect call is under way.
NoCollect ==
    /\ args = NoCall /\ hdr = NoCall /\ dimensions = <<>> /\ nfiles = 0
    /\ yindexAttr = <<>> /\ q = NoCall /\ data = <<>> /\ writes = <<>>
    /\ i = 0 /\ yindex_global = None /\ fieldperp_yproc = None
    /\ var_attributes = None /\ result = NoCall /\ err = "none"
    /\ parallel = FALSE /\ datafile_cache = None /\ tind_auto = FALSE
    /\ opened = <<>> /\ closed = {} /\ reads = {} /\ calls = 0

InitSlice ==
    /\ pc = "convert"
    /\ r \in RawSpecs
    /\ N \in 0..MaxN
    /\ sliceOut = NoCall
    /\ varname = <<>>
    /\ varlist = {}
    /\ strict = FALSE
    /\ nameOut = NoCall
    /\ NoCollect

InitFind ==
    /\ pc \in {"findVar", "resolve"}
    /\ strict \in (IF pc = "resolve" THEN BOOLEAN ELSE {FALSE})
    /\ r = RawNone
    /\ N = 0
    /\ sliceOut = NoCall
    /\ varname \in Requested
    /\ varlist \in VarLists
    /\ nameOut = NoCall
    /\ NoCollect

\* --------------------------------------------------- collect: input sets

\* The header scalars of file 0.  The two target positions are equal or not;
\* ny_inner matters only with an upper target.
Headers ==
    [MXSUB : 1..MaxMxsub, MYSUB : 1..MaxMysub, MZ : 1..MaxMz,
     MXG : 0..MaxMxg, MYG : 0..MaxMyg,
     NXPE : {Some(n) : n \in 1..MaxNxpe}, NYPE : {Some(n) : n \in 1..MaxNype},
     BOUT_VERSION : {None, Some(34), Some(35)},
     jyseps2_1 : {1}, jyseps1_2 : {1, 2},
     ny_inner : 1..(MaxNype * MaxMysub), nt : {2}]

\* One header for each topology that differs only in what is not read.
PlainHeaders ==
    {h \in Headers : h.jyseps1_2 = 1 /\ h.ny_inner = 1 /\ h.MZ = 1
                        /\ h.BOUT_VERSION = Some(35)}

YGuardFlags == {"False", "True", "include_upper"}

\* The requests for a contiguous range of an axis of size n.
Contiguous(n) ==
    {RawNone}
    \cup {RawInt("list", <<a, b>>) : a \in 0..(n - 1), b \in 0..(n - 1)}

\* A collect call for variable vn on nf files of the given layout, with or
\* without a cache of open handles (create_cache opens every file).
CollectCall(a, h, d, ya, vn, nf, par, cache, auto) ==
    /\ pc = "collect"
    /\ r = RawNone /\ N = 0 /\ sliceOut = NoCall
    /\ varname = vn /\ varlist = {<<"a">>, <<"b">>, TArrayName}
    /\ strict = FALSE /\ nameOut = NoCall
    /\ args = a /\ hdr = h /\ dimensions = d
    /\ nfiles = nf
    /\ yindexAttr = ya
    /\ q = NoCall /\ data = <<>> /\ writes = <<>>
    /\ i = 0 /\ yindex_global = None /\ fieldperp_yproc = None
    /\ var_attributes = None /\ result = NoCall /\ err = "none"
    /\ parallel = par /\ tind_auto = auto
    /\ datafile_cache = (IF cache THEN Some(0..(nf - 1)) ELSE None)
    /\ opened = <<>> /\ closed = {} /\ reads = {} /\ calls = 1

\* A collect call on a variable that file 0 holds under the requested name,
\* one file per process, no cache.
CollectStart(a, h, d, ya) ==
    CollectCall(a, h, d, ya, <<"a">>, Nxpe(h) * Nype(h, 0), FALSE, FALSE, FALSE)

\* No file holds a FieldPerp.
NoPlane(h) == [k \in 1..(Nxpe(h) * Nype(h, 0)) |-> 0 - 1]

\* The whole of a field, with every choice of guard cells, target layout
\* and file version.
InitWhole ==
    \E h \in Headers, xg \in BOOLEAN, yg \in YGuardFlags :
        /\ yg # "include_upper" => (h.jyseps1_2 = 1 /\ h.ny_inner = 1)
        /\ h.jyseps1_2 = 1 => h.ny_inner = 1
        /\ h.ny_inner <= Nype(h, 0) * h.MYSUB
        /\ CollectStart([xind |-> RawNone, yind |-> RawNone, zind |-> RawNone,
                         tind |-> RawNone, xguards |-> xg, yguards |-> yg],
                        h, <<"x", "y", "z">>, NoPlane(h))

\* A contiguous x and y range of a field, with every choice of guard cells
\* and no upper target.
InitRange ==
    \E h \in PlainHeaders, xg \in BOOLEAN, yg \in YGuardFlags :
        \E xi \in Contiguous(GlobalNx(h, [xguards |-> xg])),
           yi \in Contiguous(GlobalNy(h, [yguards |-> yg], 0)) :
            /\ xi.kind = "list" => xi.v[1] <= xi.v[2]
            /\ yi.kind = "list" => yi.v[1] <= yi.v[2]
            /\ CollectStart([xind |-> xi, yind |-> yi, zind |-> RawNone,
                          tind |-> RawNone, xguards |-> xg, yguards |-> yg],
                         h, <<"x", "y", "z">>, NoPlane(h))

\* The largest topology, with the widest guard bands.
LargestHeaders ==
    {h \in PlainHeaders : /\ h.NXPE = Some(MaxNxpe) /\ h.NYPE = Some(MaxNype)
                          /\ h.MXSUB = MaxMxsub /\ h.MYSUB = MaxMysub
                          /\ h.MXG = MaxMxg /\ h.MYG = MaxMyg}

\* The requests [a, b, step] for a range of an axis of size n with a stride.
Strided(n) ==
    {RawInt("list", <<a, b, st>>) : a \in 0..n, b \in 0..n, st \in 2..MaxStride}

\* The whole axis, as None or with the largest stride.
WholeStrided(n) == {RawNone, RawInt("list", <<0, n, MaxStride>>)}

\* Row 0 holds the plane of a FieldPerp.
PlaneInRow0(h) ==
    [k \in 1..(Nxpe(h) * Nype(h, 0)) |-> IF k <= Nxpe(h) THEN 1 ELSE 0 - 1]

\* A stride on the x or on the y range of a variable of every dimension
\* tuple the stride branch knows, the other axis whole.
InitStride ==
    \E h \in LargestHeaders, xg \in BOOLEAN, yg \in {"False", "True"},
       d \in StrideDims :
        \E xi \in Strided(GlobalNx(h, [xguards |-> xg]))
                     \cup WholeStrided(GlobalNx(h, [xguards |-> xg])),
           yi \in Strided(GlobalNy(h, [yguards |-> yg], 0))
                     \cup WholeStrided(GlobalNy(h, [yguards |-> yg], 0)) :
            /\ xi \in WholeStrided(GlobalNx(h, [xguards |-> xg]))
                  \/ yi \in WholeStrided(GlobalNy(h, [yguards |-> yg], 0))
            /\ xi.kind = "list" => xi.v[1] <= xi.v[2]
            /\ yi.kind = "list" => yi.v[1] <= yi.v[2]
            /\ CollectStart([xind |-> xi, yind |-> yi, zind |-> RawNone,
                             tind |-> RawNone, xguards |-> xg, yguards |-> yg],
                            h, d, PlaneInRow0(h))

\* The topologies a FieldPerp is collected from: every one whose files are
\* few enough, one row of cells per process.
PerpHeaders ==
    {h \in PlainHeaders : /\ Nxpe(h) * Nype(h, 0) <= MaxPerpFiles
                          /\ h.MXSUB = MaxMxsub /\ h.MYSUB = 1}

\* A FieldPerp over a contiguous x range and the whole of y; every file
\* reports a yindex_global of its own, negative or not.
InitPerp ==
    \E h \in PerpHeaders, xg \in BOOLEAN, yg \in {"False", "True"},
       d \in {<<"x", "z">>, <<"t", "x", "z">>} :
        \E xi \in Contiguous(GlobalNx(h, [xguards |-> xg])),
           ya \in [1..(Nxpe(h) * Nype(h, 0)) -> {0 - 1, 0, MaxYindex}] :
            /\ xi.kind = "list" => xi.v[1] <= xi.v[2]
            /\ CollectStart([xind |-> xi, yind |-> RawNone, zind |-> RawNone,
                             tind |-> RawNone, xguards |-> xg, yguards |-> yg],
                            h, d, ya)

\* The headers of the runs whose files are counted: every topology, the
\* smallest blocks and the widest guard bands.
FileHeaders ==
    {h \in PlainHeaders : /\ h.MXSUB = 1 /\ h.MYSUB = 1
                          /\ h.MXG = MaxMxg /\ h.MYG = MaxMyg}

\* The dimension tuples of the variables asked for: a scalar, a time
\* series, fields, a FieldPerp, and tuples collect does not support.
FileDims ==
    {<<>>, <<"t">>, <<"x", "y">>, <<"t", "x", "y", "z">>, <<"x", "z">>,
     <<"x", "t">>, <<"s", "t">>, <<"t", "x", "y", "z", "s">>}

\* The whole of every axis, with the x guard cells and without the y ones.
WholeArgs ==
    [xind |-> RawNone, yind |-> RawNone, zind |-> RawNone, tind |-> RawNone,
     xguards |-> TRUE, yguards |-> "False"]

\* The files of process row 0 hold the plane of a FieldPerp.
PlaneOf(h, nf) ==
    [k \in 1..Max(nf, Nxpe(h) * Nype(h, nf)) |->
        IF k <= Nxpe(h) THEN 0 ELSE 0 - 1]

\* A collect call for a variable of any of the dimension tuples, on one
\* merged file or on a number of files that is free of nxpe * nype, with or
\* without a cache and auto time truncation.  t_array is a time series.
InitFiles ==
    \E h \in FileHeaders, d \in FileDims, nf \in 1..MaxFiles,
       par \in BOOLEAN, cache \in BOOLEAN, auto \in BOOLEAN,
       vn \in {<<"a">>, TArrayName} :
        /\ par => nf = 1
        /\ vn = TArrayName => d = <<"t">>
        /\ CollectCall(WholeArgs, h, d, PlaneOf(h, nf), vn, nf, par, cache, auto)

\* Another collect call on the files of the one before it, through the same
\* cache, for a variable of any of the dimension tuples.
CollectAgain ==
    /\ pc \in {"returned", "raised"}
    /\ datafile_cache # None
    /\ calls < MaxCalls
    /\ pc' = "collect"
    /\ calls' = calls + 1
    /\ dimensions' \in FileDims
    /\ varname = TArrayName => dimensions' = <<"t">>
    /\ nameOut' = NoCall /\ q' = NoCall /\ data' = <<>> /\ writes' = <<>>
    /\ i' = 0 /\ yindex_global' = None /\ fieldperp_yproc' = None
    /\ var_attributes' = None /\ result' = NoCall /\ err' = "none"
    /\ opened' = <<>> /\ closed' = {} /\ reads' = {}
    /\ UNCHANGED <<sliceVars, varname, varlist, strict, args, hdr, nfiles,
                   yindexAttr, parallel, datafile_cache, tind_auto>>

\* Headers of a run with two targets, one process column without x guard
\* cells: ny_inner is a whole number of process rows and leaves at least
\* one row to the upper leg.
UpperHeaders ==
    {h \in [MXSUB : {1}, MYSUB : 1..MaxMysub, MZ : {1},
            MXG : {0}, MYG : 0..MaxMyg,
            NXPE : {Some(1)}, NYPE : {Some(n) : n \in 2..MaxUpperNype},
            BOUT_VERSION : {Some(VersionThreshold)},
            jyseps2_1 : {1}, jyseps1_2 : {2},
            ny_inner : 1..(MaxUpperNype * MaxMysub), nt : {2}] :
        /\ h.ny_inner % h.MYSUB = 0
        /\ h.ny_inner \div h.MYSUB <= h.NYPE[1] - 1}

\* A contiguous y range of a field of a run with an upper target, the
\* upper target's guard cells included.
InitUpper ==
    \E h \in UpperHeaders :
        \E yi \in Contiguous(GlobalNy(h, [yguards |-> "include_upper"], 0)) :
            /\ yi.kind = "list" => yi.v[1] <= yi.v[2]
            /\ CollectStart([xind |-> RawNone, yind |-> yi, zind |-> RawNone,
                             tind |-> RawNone, xguards |-> FALSE,
                             yguards |-> "include_upper"],
                            h, <<"x", "y", "z">>, NoPlane(h))

NextFiles ==
    \/ CollectOpen
    \/ ResolveCall
    \/ CollectSingle
    \/ CollectSetup
    \/ CollectLoop
    \/ CollectFinish
    \/ CollectAgain

SpecFiles == InitFiles /\ [][NextFiles]_vars

NextCollect ==
    \/ CollectOpen
    \/ ResolveCall
    \/ CollectSetup
    \/ CollectLoop
    \/ CollectFinish

SpecWhole == InitWhole /\ [][NextCollect]_vars
SpecRange == InitRange /\ [][NextCollect]_vars
SpecStride == InitStride /\ [][NextCollect]_vars
SpecPerp == InitPerp /\ [][NextCollect]_vars
SpecUpper == InitUpper /\ [][NextCollect]_vars

NextSlice == ConvertCall
NextFind == FindVarCall \/ ResolveCall

SpecSlice == InitSlice /\ [][NextSlice]_vars
SpecFind == InitFind /\ [][NextFind]_vars

\* ------------------------------------------------- claims: index normaliser

Returned == pc = "converted" /\ N >= 1 /\ sliceOut.err = "none"
IsList(n) == r.kind = "list" /\ Len(r.v) = n
\* The forms C4 names: absent, single integer, [a, b], [a, b, step].
NamedForm == r.kind \in {"none", "int"} \/ IsList(2) \/ IsList(3)
Wrap(v) == IF v < 0 THEN v + N ELSE v
Ordered == 0 <= sliceOut.start /\ sliceOut.start <= sliceOut.stop
               /\ sliceOut.stop <= N

C5_Original ==
    (pc = "converted" /\ N >= 1 /\ IsList(2)) =>
        LET a == Wrap(r.v[1])
            b == Wrap(r.v[2])
        IN /\ a > b => sliceOut.err = "ValueError"
           /\ a <= b => sliceOut = [err |-> "none", start |-> a,
                                    stop |-> b + 1, step |-> 1]
           /\ (a <= b /\ r.v[2] = -1) => sliceOut.stop = N

\* C5 amended: [a,b] fails iff a > b after wrapping; otherwise the step is 1
\* and the range is [a, b+1) when 0 <= a and b < N; a bound beyond N is
\* clipped to N, and a bound still negative after wrapping is taken relative
\* to N once more (at least 0); [a,-1] with -N <= a < N yields [a, N).
C5_Amended ==
    (pc = "converted" /\ N >= 1 /\ IsList(2)) =>
        LET a == Wrap(r.v[1])
            b == Wrap(r.v[2])
            Clip(v) == IF v < 0 THEN Max(v + N, 0) ELSE Min(v, N)
        IN /\ (sliceOut.err = "ValueError") <=> (a > b)
           /\ sliceOut.err \in {"ValueError", "none"}
           /\ a <= b => sliceOut = [err |-> "none", start |-> Clip(a),
                                    stop |-> Clip(b + 1), step |-> 1]
           /\ (0 <= a /\ a <= b /\ b < N) =>
                  (sliceOut.start = a /\ sliceOut.stop = b + 1)
           /\ (r.v[2] = -1 /\ r.v[1] >= -N /\ r.v[1] < N) =>
                  (sliceOut.err = "none" /\ sliceOut.start = a
                     /\ sliceOut.stop = N)

\* An end beyond the axis is clipped, and [a,-1] reaches the end of the axis.
C5_Witness ==
    /\ Returned /\ IsList(2)
    /\ r.v[2] >= N /\ sliceOut.stop = N /\ sliceOut.start < N

\* C6: a single integer r fails with the out-of-range error iff r >= N or
\* r < -N; r == -1 yields [N-1, N); any other r yields [r', r'+1) with
\* r' = r for r >= 0 and r' = N + r for r < 0.
C6_SingleInt ==
    (pc = "converted" /\ N >= 1 /\ r.kind = "int") =>
        LET v == r.v[1]
        IN /\ (sliceOut.err = "IndexError") <=> (v >= N \/ v < -N)
           /\ sliceOut.err \in {"IndexError", "none"}
           /\ (v = -1) => sliceOut = [err |-> "none", start |-> N - 1,
                                      stop |-> N, step |-> 1]
           /\ (v >= -N /\ v < N) =>
                  sliceOut = [err |-> "none", start |-> Wrap(v),
                              stop |-> Wrap(v) + 1, step |-> 1]

\* A negative index other than -1 has been resolved against the axis size.
C6_Witness ==
    /\ Returned /\ r.kind = "int" /\ r.v[1] < -1
    /\ sliceOut.start = N + r.v[1] /\ sliceOut.stop = sliceOut.start + 1

\* ---------------------------------------------------- claims: name resolver

\* a equals b ignoring case.
CaseEq(a, b) ==
    /\ Len(a) = Len(b)
    /\ \A k \in 1..Len(a) : LowerChar(a[k]) = LowerChar(b[k])
\* The first Len(vn) characters of name equal vn ignoring case.
Abbreviates(vn, name) ==
    /\ Len(name) >= Len(vn)
    /\ \A k \in 1..Len(vn) : LowerChar(name[k]) = LowerChar(vn[k])
ExactMatches == {name \in varlist : CaseEq(name, varname)}
PrefixMatches == {name \in varlist : Abbreviates(varname, name)}

\* C7: findVar returns the unique case-insensitive exact match, fails when
\* several names match so, otherwise returns the unique name that the
\* requested one abbreviates and fails when there is none or more than one;
\* it never returns a name that is not in the list.
C7_FindVar ==
    (pc = "found") =>
        /\ \A name \in varlist :
              ExactMatches = {name} => nameOut = NameReturn(name)
        /\ Cardinality(ExactMatches) > 1 => nameOut.err = "ValueError"
        /\ \A name \in varlist :
              (ExactMatches = {} /\ PrefixMatches = {name})
                  => nameOut = NameReturn(name)
        /\ (ExactMatches = {} /\ Cardinality(PrefixMatches) # 1)
              => nameOut.err = "ValueError"
        /\ nameOut.err = "none" => nameOut.name \in varlist

\* findVar has refused a name that two names of the list match ignoring
\* case, and has expanded an abbreviation.
C7_Witness ==
    /\ pc = "found"
    /\ ExactMatches = {} /\ Cardinality(PrefixMatches) = 1
    /\ nameOut.err = "none" /\ Len(nameOut.name) > Len(varname)
    /\ Len(varname) > 0 /\ Cardinality(varlist) > 1

\* C8 as stated: the resolver (findVar) returns a requested name that is in
\* the list unchanged and does not fail as ambiguous.
C8_Original ==
    (pc = "found" /\ varname \in varlist) => nameOut = NameReturn(varname)

\* C8 amended: collect's resolution (the test for the verbatim name, then
\* findVar) returns a requested name that is in the list unchanged; findVar
\* alone does so iff no other name of the list equals it ignoring case.
C8_Amended ==
    /\ (pc = "resolved" /\ varname \in varlist)
          => nameOut = NameReturn(varname)
    /\ (pc = "found" /\ varname \in varlist)
          => ((nameOut = NameReturn(varname)) <=> (ExactMatches = {varname}))

\* collect has resolved a verbatim name with a case variant beside it.
C8_Witness ==
    /\ pc = "resolved" /\ varname \in varlist
    /\ Cardinality(ExactMatches) > 1
    /\ nameOut = NameReturn(varname)

\* ------------------------------------------------------- claims: reassembly

\* The loop of collect has been entered.
Assembling == pc \in {"loop", "raised", "returned"} /\ data # <<>>

Clamp(v, lo, hi) == Max(lo, Min(v, hi))

\* The process that owns position g of an axis, counted with the guard
\* cells of the axis (sub interior cells per process, guard width gw, npes
\* processes), and the position in that process's file.
Owner(g, sub, gw, npes) == Clamp((g - gw) \div sub, 0, npes - 1)
LocalOf(g, sub, gw, npes) == g - Owner(g, sub, gw, npes) * sub

\* The value of the global cell that cell c of the buffer stands for, with
\* no upper target: the cell at (request start + offset).
GlobalCell(c) ==
    LET gx == q.xind.start + c[1] + (IF q.xguards THEN 0 ELSE q.mxg)
        gy == q.yind.start + c[2] + (IF q.yguards THEN 0 ELSE q.myg)
    IN LocalData(Owner(gy, q.mysub, q.myg, q.nype) * q.nxpe
                     + Owner(gx, q.mxsub, q.mxg, q.nxpe),
                 LocalOf(gx, q.mxsub, q.mxg, q.nxpe),
                 LocalOf(gy, q.mysub, q.myg, q.nype))

\* C2: with no upper target, for every choice of guard cells and every
\* contiguous x and y range, the request completes and every cell of the
\* buffer has been written by exactly one process and holds the global cell
\* at (request start + offset).
C2_Reassembly ==
    (Assembling /\ q.ypt = None) =>
        /\ pc # "raised"
        /\ pc = "returned" =>
              \A c \in DOMAIN data : writes[c] = 1 /\ data[c] = GlobalCell(c)

\* The same for guard bands that are not empty, where the code does hold it.
C2_WithGuardCells ==
    (Assembling /\ q.ypt = None /\ (q.myg >= 1 \/ ~q.yguards)) =>
        /\ pc # "raised"
        /\ pc = "returned" =>
              \A c \in DOMAIN data : writes[c] = 1 /\ data[c] = GlobalCell(c)

\* A whole field was asked for with the x and the y guard cells excluded.
WholeNoGuards ==
    /\ pc \in {"raised", "returned"}
    /\ dimensions = <<"x", "y", "z">>
    /\ ~args.xguards /\ args.yguards = "False"
    /\ args.xind = RawNone /\ args.yind = RawNone /\ args.zind = RawNone

\* Block (pe_x, pe_y) of the result is the interior of process ip's array.
BlockIsInterior(ip) ==
    LET pe_x == ip % Nxpe(hdr)
        pe_y == ip \div Nxpe(hdr)
    IN \A a \in 0..(hdr.MXSUB - 1), b \in 0..(hdr.MYSUB - 1) :
           /\ <<pe_x * hdr.MXSUB + a, pe_y * hdr.MYSUB + b>> \in DOMAIN result.cells
           /\ result.cells[<<pe_x * hdr.MXSUB + a, pe_y * hdr.MYSUB + b>>]
                  = LocalData(ip, hdr.MXG + a, hdr.MYG + b)

AllBlocksInterior ==
    \A ip \in 0..(Nxpe(hdr) * Nype(hdr, nfiles) - 1) : BlockIsInterior(ip)

\* C1 as stated: a whole (x,y,z) field collected without guard cells has
\* shape (nxpe*mxsub, nype*mysub, mz), and its block for process i is the
\* interior of process i's array.
C1_Original ==
    WholeNoGuards =>
        /\ pc = "returned"
        /\ result.shape = <<Nxpe(hdr) * hdr.MXSUB,
                            Nype(hdr, nfiles) * hdr.MYSUB, hdr.MZ>>
        /\ AllBlocksInterior

\* The z size of lines 346-350.
ZSizeByVersion ==
    IF hdr.BOUT_VERSION # None /\ hdr.BOUT_VERSION[1] >= VersionThreshold
    THEN hdr.MZ ELSE hdr.MZ - 1

\* C1 amended: the block for process i is the interior of process i's array
\* and the shape is (nxpe*mxsub, nype*mysub, nz), where nz = mz for files of
\* BOUT_VERSION >= 3.5 and nz = mz - 1 for older files or files without a
\* version; the request fails when nz is 0.
C1_Amended ==
    WholeNoGuards =>
        /\ (pc = "raised") <=> (ZSizeByVersion = 0)
        /\ pc = "returned" =>
              /\ result.shape = <<Nxpe(hdr) * hdr.MXSUB,
                                  Nype(hdr, nfiles) * hdr.MYSUB, ZSizeByVersion>>
              /\ AllBlocksInterior

\* A 2 x 2 grid of files with guard cells on both axes has been collected
\* without them: the block of process 3 starts at its first interior cell.
C1_Witness ==
    /\ WholeNoGuards /\ pc = "returned"
    /\ Nxpe(hdr) = 2 /\ Nype(hdr, nfiles) = 2
    /\ hdr.MXG >= 1 /\ hdr.MYG >= 1 /\ hdr.MXSUB >= 2 /\ hdr.MYSUB >= 2
    /\ result.shape = <<2 * hdr.MXSUB, 2 * hdr.MYSUB, hdr.MZ>>
    /\ result.cells[<<hdr.MXSUB, hdr.MYSUB>>] = LocalData(3, hdr.MXG, hdr.MYG)

\* collect has normalised the ranges of a multi-file request.
Normalised == pc \in {"loop", "returned"} /\ Len(dimensions) > 0

TwoTargets == hdr.jyseps2_1 # hdr.jyseps1_2

\* C3: nx = nxpe*mxsub, plus 2*mxg iff x guards are kept; ny = nype*mysub,
\* plus 2*myg iff y guards are kept, plus 2*myg more iff they are
\* "include_upper" and the two target positions differ; these sizes are the
\* ones the request is normalised against.
C3_GlobalSizes ==
    Normalised =>
        LET nxpe == hdr.NXPE[1]
            nype == hdr.NYPE[1]
            ny0 == nype * hdr.MYSUB
        IN /\ q.nx = nxpe * hdr.MXSUB + (IF args.xguards THEN 2 * hdr.MXG ELSE 0)
           /\ args.yguards = "False" => q.ny = ny0
           /\ args.yguards = "True" => q.ny = ny0 + 2 * hdr.MYG
           /\ (args.yguards = "include_upper" /\ ~TwoTargets)
                 => q.ny = ny0 + 2 * hdr.MYG
           /\ (args.yguards = "include_upper" /\ TwoTargets)
                 => q.ny = ny0 + 4 * hdr.MYG
           /\ args.xind = RawNone => (q.xind.start = 0 /\ q.xind.stop = q.nx)
           /\ args.yind = RawNone => (q.yind.start = 0 /\ q.yind.stop = q.ny)

\* Upper target guards were asked for and the targets differ: ny holds four
\* guard bands; the buffer is that long.
C3_Witness ==
    /\ Normalised /\ pc = "returned"
    /\ args.yguards = "include_upper" /\ TwoTargets /\ hdr.MYG >= 1
    /\ q.ny = hdr.NYPE[1] * hdr.MYSUB + 4 * hdr.MYG
    /\ q.ysize = q.ny


\* ------------------------------------------------------- C9: FieldPerp

\* The global x position, counted with the guard cells, of offset k of the
\* buffer.
GlobalX(k) == q.xind.start + k + (IF q.xguards THEN 0 ELSE q.mxg)

\* The files that hold the plane (their yindex_global is not negative) and
\* own a part of the requested x range.
Contributing ==
    {ip \in 0..(q.npe - 1) :
        /\ yindexAttr[ip + 1] >= 0
        /\ \E k \in 0..(q.xsize - 1) :
              Owner(GlobalX(k), q.mxsub, q.mxg, q.nxpe) = ip % q.nxpe}

\* The contributing files report one yindex_global and lie on one process
\* row.
OnePlane ==
    \A a \in Contributing, b \in Contributing :
        /\ yindexAttr[a + 1] = yindexAttr[b + 1]
        /\ a \div q.nxpe = b \div q.nxpe

\* What the contributing files hold for cell c of the buffer, zero where no
\* contributing file owns it.
PlaneCell(c) ==
    LET px == Owner(GlobalX(c[1]), q.mxsub, q.mxg, q.nxpe)
        from == {ip \in Contributing : ip % q.nxpe = px}
    IN IF from = {} THEN {Zero}
       ELSE {LocalData(ip, LocalOf(GlobalX(c[1]), q.mxsub, q.mxg, q.nxpe), 0) :
                ip \in from}

\* C9: collecting a FieldPerp, a file whose yindex_global is negative never
\* writes to the buffer; the request succeeds exactly when the contributing
\* files report one yindex_global and lie on one process row, and fails
\* with a ValueError otherwise; on success the result holds that row's data
\* over the columns of the contributing files, and the attributes and
\* yindex_global of a contributing file.
C9_FieldPerp ==
    (Assembling /\ q.is_fieldperp) =>
        /\ \A c \in DOMAIN data :
              \/ data[c] = Zero /\ writes[c] = 0
              \/ \E ip \in Contributing, lx \in 0..(q.mxsub + 2 * q.mxg - 1) :
                    data[c] = LocalData(ip, lx, 0) /\ writes[c] >= 1
        /\ pc = "raised" => (err = "ValueError" /\ ~OnePlane)
        /\ pc = "returned" =>
              /\ OnePlane
              /\ \A c \in DOMAIN data :
                    data[c] \in PlaneCell(c) /\ result.cells[c] = data[c]
              /\ Contributing # {} =>
                    /\ var_attributes \in {Some(ip) : ip \in Contributing}
                    /\ yindex_global
                           \in {Some(yindexAttr[ip + 1]) : ip \in Contributing}
                    /\ fieldperp_yproc
                           \in {Some(ip \div q.nxpe) : ip \in Contributing}
              /\ Contributing = {} =>
                    (var_attributes = Some(0) /\ yindex_global = None)

\* Two process rows, one holding the plane and one not, over two process
\* columns: the request has returned the data of the first.
C9_Witness ==
    /\ Assembling /\ q.is_fieldperp /\ pc = "returned"
    /\ q.nype = 2 /\ q.nxpe = 2
    /\ \A ip \in 0..(q.npe - 1) :
          (yindexAttr[ip + 1] >= 0) <=> (ip \div q.nxpe = 1)
    /\ Cardinality(Contributing) = 2
    /\ \A c \in DOMAIN data : data[c] # Zero

\* Two rows that report different planes: the request has failed.
C9_WitnessConflict ==
    /\ Assembling /\ q.is_fieldperp /\ pc = "raised"
    /\ \E a \in Contributing, b \in Contributing :
          a \div q.nxpe # b \div q.nxpe

\* --------------------------------------------------------- C10: strides

\* The size the result has along an axis asked for as [start, stop, step].
StrideSize(s) == CeilDiv(s.stop - s.start, s.step)

\* C10: with a step above one on the x or y range, a request that returns
\* has ceil((stop - start) / step) positions along that axis, and its
\* position (a, b) holds position (a * xstep, b * ystep) of the buffer the
\* loop assembled at full resolution over [start, stop), every cell of which
\* was written once with the global cell it stands for.
C10_Stride ==
    (Assembling /\ pc = "returned") =>
        /\ \A k \in 1..Len(dimensions) :
              /\ dimensions[k] = "x" => result.shape[k] = StrideSize(q.xind)
              /\ dimensions[k] = "y" => result.shape[k] = StrideSize(q.yind)
        /\ DOMAIN result.cells
              = (0..(StrideSize(q.xind) - 1))
                    \X (0..((IF Has("y", dimensions) THEN StrideSize(q.yind)
                             ELSE 1) - 1))
        /\ DOMAIN data = Cells(dimensions, q.xind.stop - q.xind.start,
                               q.yind.stop - q.yind.start)
        /\ \A c \in DOMAIN result.cells :
              result.cells[c]
                  = data[<<c[1] * q.xind.step,
                           c[2] * (IF Has("y", dimensions) THEN q.yind.step
                                   ELSE 1)>>]
        /\ Has("y", dimensions) =>
              \A c \in DOMAIN data : writes[c] = 1 /\ data[c] = GlobalCell(c)

\* A range that starts inside the axis, with a length the step does not
\* divide, on x and on y at once.
C10_Witness ==
    /\ Assembling /\ pc = "returned" /\ Has("y", dimensions)
    /\ q.xind.step = 2 /\ q.xind.start > 0
    /\ (q.xind.stop - q.xind.start) % 2 = 1
    /\ q.yind.step = MaxStride /\ (q.yind.stop - q.yind.start) % MaxStride # 0
    /\ Cardinality(DOMAIN result.cells) >= 4


\* ------------------------------------------------ C11: non-spatial reads

\* A multi-file request for a variable of dimension tuple () or (t,) whose
\* name was found.
NoSpace ==
    /\ ~parallel
    /\ pc \in {"resolved", "loop", "returned", "raised"}
    /\ nameOut.err = "none"
    /\ dimensions \in {<<>>, <<"t">>}

\* The files above file 0 that a read of the variable was issued to.
ReadAbove0 == {rd[1] : rd \in {e \in reads : e[2] = nameOut.name /\ e[1] > 0}}

\* C11 as stated: no read of the variable is issued to a file above file 0
\* and the loop over the processes is never entered.
C11_Original ==
    NoSpace => (ReadAbove0 = {} /\ pc # "loop" /\ data = <<>>)

\* C11 amended: the loop is never entered and the data returned is the one
\* read from file 0; a read of the variable goes to a file above file 0
\* only when the variable is t_array and auto time truncation is on, which
\* reads t_array from every file found.
C11_Amended ==
    NoSpace =>
        /\ pc # "loop" /\ data = <<>> /\ i = 0
        /\ ReadAbove0 # {} =>
              /\ tind_auto /\ nameOut.name = TArrayName
              /\ ReadAbove0 = 1..(nfiles - 1)
        /\ pc = "returned" =>
              /\ <<0, nameOut.name>> \in reads
              /\ result.cells = [c \in {<<0, 0>>} |-> LocalData(0, 0, 0)]

\* A time series has been returned from three files of a 2 x 2 run.
C11_Witness ==
    /\ NoSpace /\ pc = "returned" /\ dimensions = <<"t">>
    /\ nfiles = MaxFiles /\ Nxpe(hdr) * Nype(hdr, nfiles) > nfiles
    /\ reads = {<<0, nameOut.name>>}


\* ------------------------------------------------- C12: handles released

\* C12: without a cache, every handle collect opened has been closed when
\* it returns a result.
C12_Released ==
    (datafile_cache = None /\ pc = "returned") => OpenHandles = {}

\* The same for the multi-file layout without auto time truncation, where
\* the code does close them; and what stays open elsewhere: the one handle
\* of the merged file, and one handle per file found under tind_auto.
C12_MultiFileNoAuto ==
    (datafile_cache = None /\ pc = "returned") =>
        /\ (~parallel /\ (~tind_auto \/ dimensions = <<>>)) => OpenHandles = {}
        /\ parallel => OpenHandles = {1}
        /\ (~parallel /\ tind_auto /\ dimensions # <<>>)
              => Cardinality(OpenHandles) = nfiles

\* --------------------------------------------------- C13: the cache

\* C13: every handle of a cache handed to collect is open, whatever calls
\* have been made through it and however they ended, and collect opens no
\* handle of its own.
C13_CacheKept ==
    datafile_cache # None =>
        /\ datafile_cache = Some(0..(nfiles - 1))
        /\ opened = <<>> /\ closed = {}

\* A second call through the cache has gone through the loop over the
\* files and returned.
C13_Witness ==
    /\ datafile_cache # None /\ calls = MaxCalls /\ pc = "returned"
    /\ ~parallel /\ i >= 2 /\ i = q.npe


\* ------------------------------------------- C14: unsupported dimensions

\* More than four dimensions, or a t dimension that is not the first.
Unsupported ==
    \/ Len(dimensions) > 4
    \/ Has("t", dimensions) /\ dimensions[1] # "t"

\* A collect call has got past the name of the variable.
Called == calls >= 1 /\ pc \notin {"collect", "resolve"} /\ nameOut.err = "none"

\* C14 as stated: in either layout, a request for a variable of such a
\* dimension tuple returns no array.
C14_Original ==
    (Called /\ Unsupported) => (pc # "returned" /\ result = NoCall)

\* C14 amended: in the multi-file layout the request returns no array, and
\* fails before any file is read when there are more than four dimensions
\* or no spatial one; in the single-file layout the variable is read whole
\* from the file and returned.
C14_Amended ==
    (Called /\ Unsupported) =>
        /\ ~parallel =>
              /\ pc # "returned" /\ result = NoCall
              /\ pc = "raised" => err \in {"ValueError", "IndexError"}
              /\ (Len(dimensions) > 4 \/ ~Has("x", dimensions)) =>
                    (pc \in {"resolved", "raised"}
                     /\ {e \in reads : e[2] = nameOut.name} = {})
        /\ parallel =>
              /\ pc \in {"resolved", "returned"}
              /\ pc = "returned" =>
                    /\ Len(result.shape) = Len(dimensions)
                    /\ reads = {<<0, nameOut.name>>}

\* A variable of five dimensions has been refused in the multi-file layout.
C14_Witness ==
    /\ Called /\ ~parallel /\ Len(dimensions) > 4
    /\ pc = "raised" /\ err = "ValueError" /\ nfiles >= 2

\* ------------------------------------------------ C15: the file count

\* A multi-file request for a field on a number of files that is not
\* nxpe * nype.
Mismatch ==
    /\ Called /\ ~parallel
    /\ dimensions \in {<<"x", "y">>, <<"t", "x", "y", "z">>, <<"x", "z">>}
    /\ Nxpe(hdr) * Nype(hdr, nfiles) # nfiles

\* C15: with more or with fewer files than nxpe * nype, the collect of a
\* field does not fail, and returns an array once the loop is over.
C15_MismatchNotFatal ==
    Mismatch =>
        /\ pc # "raised"
        /\ (pc = "loop" /\ i < q.npe) => i < nfiles

\* The same with more files than processes, where the code does hold it.
C15_MoreFiles ==
    (Mismatch /\ Nxpe(hdr) * Nype(hdr, nfiles) < nfiles) =>
        /\ pc # "raised"
        /\ (pc = "loop" /\ i < q.npe) => i < nfiles


\* ------------------------------------------------- C16: no empty reads

\* The ranged reads _collect_from_one_proc has issued.
RangedReads == {e \in reads : Len(e) = 3}

\* The local slice <<start, stop>> of an axis is neither empty nor
\* inverted; an axis the variable does not have has none.
Proper(s) == s = <<>> \/ s[1] < s[2]

\* C16: every ranged read _collect_from_one_proc issues has xstart < xstop
\* and ystart < ystop.
C16_NoEmptyRead ==
    \A e \in RangedReads : Proper(e[3].x) /\ Proper(e[3].y)

\* The same on the x axis, and on the y axis with the y guard cells
\* excluded, where the code does hold it.
C16_XAxis ==
    \A e \in RangedReads :
        /\ Proper(e[3].x)
        /\ ~q.yguards => Proper(e[3].y)


\* -------------------------------------------------- C17: upper target

\* A ranged read whose destination y slice lies inside the buffer and has
\* the length of what was read.
Placed(e) ==
    /\ 0 <= e[3].gy[1] /\ e[3].gy[1] <= e[3].gy[2] /\ e[3].gy[2] <= q.ysize
    /\ e[3].gy[2] - e[3].gy[1] = e[3].ny
    /\ e[3].gy[2] - e[3].gy[1] = e[3].y[2] - e[3].y[1]

UpperInEffect == q # NoCall /\ q.yguards /\ q.ypt # None

\* C17: with an upper target in effect, for every contiguous y range and
\* every process that is read, the destination y slice lies inside the
\* buffer and has the length of the local y slice read, and the request
\* ends with every output y index written by exactly one process row.
C17_UpperTarget ==
    UpperInEffect =>
        /\ \A e \in RangedReads : Placed(e)
        /\ pc # "raised"
        /\ pc = "returned" => \A c \in DOMAIN writes : writes[c] = 1

\* The same for the whole y axis and guard bands that are not empty, where
\* the code does hold it.
C17_WholeAxis ==
    (UpperInEffect /\ args.yind = RawNone /\ q.myg >= 1) =>
        /\ \A e \in RangedReads : Placed(e)
        /\ pc # "raised"
        /\ pc = "returned" => \A c \in DOMAIN writes : writes[c] = 1

====
